---- MODULE Spec2Model ----
(***************************************************************************)
(* Operation orchestration of cloudpanel-api: the operations table, the    *)
(* queue worker (Dispatcher), the handler scripts it launches and the      *)
(* status monitor (Watchdog) with its daily archive sweep.                 *)
(*                                                                         *)
(* Reading notes on the shell sources:                                     *)
(*  - queue_worker.sh closes one `if` with `}` (manage_user.sh:175); the   *)
(*    model reads it as `fi`.                                              *)
(*  - log_monitor calls log_message, which status_monitor.sh does not      *)
(*    define; logging is read as having no effect on the run.              *)
(*  - The handlers run under `set -e` with `trap ... ERR` but without      *)
(*    errtrace, and every command of theirs runs inside a shell function   *)
(*    (main, create_user, ...).  bash does not run an ERR trap for a       *)
(*    command that fails inside a function unless errtrace is set: the     *)
(*    script ends under `set -e` and handle_error is not called.  A failed *)
(*    command is therefore HandlerAbort: the script ends with a non-zero   *)
(*    code and writes nothing, which is also what a killed handler does.   *)
(*  - Time is counted in minutes.  Every sqlite3 statement is one atomic   *)
(*    step; the shell code between two statements is not.                  *)
(***************************************************************************)
EXTENDS Integers, Sequences, FiniteSets, Bags, TLC

VARIABLES
    ops,        \* live table `operations`: id -> row
    archive,    \* table `operations_archive`: bag of rows
    nextId,     \* next AUTOINCREMENT id
    now,        \* wall clock, minutes
    workers,    \* the queue_worker.sh processes that are running
    dpc,        \* per worker: "sleep" | "loop" | "wait"
    dlist,      \* per worker: pending_ops still to process, <<id, type>> pairs
    handler,    \* per worker: the handler child process, or NoHandler
    result,     \* per worker: $? of the last handler that ended, or NULL
    controllers,\* API layer: ids whose controllerMethod promise is not settled
    wall,       \* wall clock of the status monitor's host, in seconds
    reported,   \* history: the wall-clock days on which the daily step ran
    wpc,        \* status monitor position
    wlist,      \* status monitor: rows of the current SELECT not yet handled
    crashes,    \* number of status monitor restarts so far
    cycleStuck, \* history: <<id, started_at, time>> of rows stalled when the cycle began
    sweepDue,   \* history: ids terminal for longer than the retention when the sweep began
    swept,      \* history: the current cycle ran a complete sweep
    termSince,  \* history: id -> time the row last entered completed/failed
    runs        \* history: id -> handler runs started, and whether some run
                \*          ended leaving the row in a status other than
                \*          processing or completed

vars == <<ops, archive, nextId, now, workers, dpc, dlist, handler, result,
          controllers, wall, reported, wpc, wlist, crashes, cycleStuck, sweepDue, swept, termSince, runs>>

(***************************************************************************)
(* Bounds of the model.                                                    *)
(***************************************************************************)
MaxOps == 1
\* Operations enqueued in the specification with two operations (SpecPair).
MaxPairOps == 2
\* Clock steps in SpecPair.
MaxPairTicks == 2
MaxShortAdvances == 4
MaxLongAdvances == 1
MaxCrashes == 1
\* The run history counts handler runs of one operation up to MaxRuns.
MaxRuns == 5

(***************************************************************************)
(* Program constants.                                                      *)
(***************************************************************************)
MAX_RETRIES == 3
StuckMinutes == 30
TimeoutMinutes == 60
RetentionDays == 30

RetentionMinutes == RetentionDays * 1440

NULL == -1
NoError == "NULL"
NoHandler == [pc |-> "none"]

WorkerIds == {1, 2}

\* Clock steps: just past the stuck threshold, and just past the retention.
ShortStep == StuckMinutes + 1
LongStep == RetentionMinutes + 1

(***************************************************************************)
(* Handler registry (operation_types.conf read into OPERATION_HANDLERS).   *)
(* An entry is the text after `=`: a script path, optionally followed by   *)
(* a sub-action word.  "site.create" is a line of the shipped file; the    *)
(* other entries are lines that name the script alone.                     *)
(***************************************************************************)
OPERATION_HANDLERS ==
    [t \in {"site.create", "create", "update", "reset_password"} |->
        CASE t = "site.create"    -> [script |-> "manage_site.sh", arg |-> "create"]
          [] t = "create"         -> [script |-> "manage_site.sh", arg |-> ""]
          [] t = "update"         -> [script |-> "manage_site.sh", arg |-> ""]
          [] t = "reset_password" -> [script |-> "manage_user.sh", arg |-> ""]]

Types == DOMAIN OPERATION_HANDLERS \cup {"bogus"}
Payloads == {"ok", "bad"}

\* [[ -z "$handler_script" ]]
HasHandler(type) == type \in DOMAIN OPERATION_HANDLERS

\* [[ -x "$handler_script" ]] can only succeed when the whole entry is a path.
IsPath(type) == OPERATION_HANDLERS[type].arg = ""

\* The words each script's `case "$1"` accepts.
SubActions(script) ==
    IF script = "manage_site.sh" THEN {"create", "delete"}
    ELSE {"create", "delete", "reset_password"}

(***************************************************************************)
(* Rows and the statements of core/database.sh.                            *)
(***************************************************************************)
\* Column default of retry_count (the table definition is not among the
\* sources; the status monitor reads the column as a number).
DefaultRetryCount == 0

\* NewRow that stamps started_at at creation.
NewRowStarted(id, type, data, source) ==
    [id |-> id, type |-> type, data |-> data, source |-> source,
     status |-> "pending", retry_count |-> DefaultRetryCount,
     error |-> NoError, result |-> NULL, created_at |-> now,
     started_at |-> now, completed_at |-> NULL]

NewRow(id, type, data, source) ==
    [id |-> id, type |-> type, data |-> data, source |-> source,
     status |-> "pending", retry_count |-> DefaultRetryCount, error |-> NoError,
     result |-> NULL, created_at |-> now, started_at |-> NULL,
     completed_at |-> NULL]

Terminal(row) == row.status \in {"completed", "failed"}

\* StatusUpdate whose processing branch sets the status alone.
StatusUpdateNoStart(row, status, error_message) ==
    CASE status = "processing" ->
            [row EXCEPT !.status = status]
      [] status = "completed" ->
            [row EXCEPT !.status = status, !.completed_at = now]
      [] status = "failed" ->
            [row EXCEPT !.status = status, !.completed_at = now,
                        !.error = error_message]

\* The row update_operation_status leaves behind.
StatusUpdate(row, status, error_message) ==
    CASE status = "processing" ->
            [row EXCEPT !.status = status, !.started_at = now]
      [] status = "completed" ->
            [row EXCEPT !.status = status, !.completed_at = now]
      [] status = "failed" ->
            [row EXCEPT !.status = status, !.completed_at = now,
                        !.error = error_message]

\* UPDATE ... WHERE id = $operation_id : no effect when the row is gone.
UpdateRow(table, id, set) ==
    IF id \in DOMAIN table THEN [table EXCEPT ![id] = set[table[id]]] ELSE table

update_operation_status(table, id, status, error_message) ==
    UpdateRow(table, id,
              [row \in {table[j] : j \in DOMAIN table} |->
                  StatusUpdate(row, status, error_message)])

\* get_operation_data: the payload, empty when the row is gone.
get_operation_data(id) == IF id \in DOMAIN ops THEN ops[id].data ELSE "bad"

\* History of the time each row entered a terminal status.
TermSinceAfter(newOps) ==
    [i \in DOMAIN newOps |->
        IF ~Terminal(newOps[i]) THEN NULL
        ELSE IF i \in DOMAIN ops /\ Terminal(ops[i]) THEN termSince[i]
        ELSE now]

\* Applies a write to the live table and keeps the history in step.
Write(newOps) ==
    /\ ops' = newOps
    /\ termSince' = TermSinceAfter(newOps)

(***************************************************************************)
(* Initial state: empty tables, one queue worker and the status monitor    *)
(* started.  InitMulti starts two queue workers on the same database.      *)
(***************************************************************************)
InitAt(ws, start) ==
    /\ ops = <<>>
    /\ archive = EmptyBag
    /\ nextId = 1
    /\ now = 0
    /\ workers = ws
    /\ dpc = [d \in ws |-> "sleep"]
    /\ dlist = [d \in ws |-> <<>>]
    /\ handler = [d \in ws |-> NoHandler]
    /\ result = [d \in ws |-> NULL]
    /\ controllers = {}
    /\ wall = start
    /\ reported = <<>>
    /\ wpc = "sleep"
    /\ wlist = {}
    /\ crashes = 0
    /\ cycleStuck = {}
    /\ sweepDue = {}
    /\ swept = FALSE
    /\ termSince = <<>>
    /\ runs = <<>>

\* The wall clock is followed only by the specification of the daily step;
\* everywhere else the monitor's midnight test is a free choice.
InitWith(ws) == InitAt(ws, 0)

Init == InitWith({1})

InitMulti == InitWith(WorkerIds)

(***************************************************************************)
(* Producer boundary.                                                      *)
(***************************************************************************)
\* INSERT INTO operations: the row gets the next id; `limit` is the number
\* of operations the run enqueues.
InsertRow(type, data, source, limit) ==
    /\ nextId <= limit
    /\ Write(ops @@ (nextId :> NewRow(nextId, type, data, source)))
    /\ nextId' = nextId + 1
    /\ runs' = runs @@ (nextId :> [started |-> 0, stray |-> FALSE])
    /\ UNCHANGED <<archive, now, workers, dpc, dlist, handler, result, wpc,
                   wlist, crashes, cycleStuck, sweepDue, swept>>

Insert(type, data, source) ==
    /\ InsertRow(type, data, source, MaxOps)
    /\ UNCHANGED <<controllers, wall, reported>>

\* create_operation: the API tags its rows 'api'.
create_operation(type, data) == Insert(type, data, "api")

\* A row written by the panel's own path takes the column default 'ui'.
ui_insert(type, data) == Insert(type, data, "ui")

(***************************************************************************)
(* The clock.                                                              *)
(***************************************************************************)
AdvanceClock(step) ==
    /\ \/ /\ step = ShortStep
          /\ (now % LongStep) + ShortStep <= MaxShortAdvances * ShortStep
       \/ /\ step = LongStep
          /\ (now \div LongStep) < MaxLongAdvances
    /\ now' = now + step
    /\ UNCHANGED <<ops, archive, nextId, workers, dpc, dlist, handler, wpc,
                   wlist, crashes, cycleStuck, sweepDue, swept, termSince, result, runs, controllers, wall,
                   reported>>

(***************************************************************************)
(* Dispatcher: queue_worker.sh.                                            *)
(***************************************************************************)
\* SELECT id, type FROM operations WHERE status = 'pending'
PendingIds == {i \in DOMAIN ops : ops[i].status = "pending"}

\* PendingOrders without the ORDER BY clause.
PendingOrdersUnsorted ==
    LET n == Cardinality(PendingIds)
    IN {s \in [1..n -> PendingIds] : \A j, k \in 1..n : j # k => s[j] # s[k]}

\* ... ORDER BY created_at ASC : every order of the rows the sort allows.
PendingOrders ==
    LET n == Cardinality(PendingIds)
    IN {s \in [1..n -> PendingIds] :
          /\ \A j, k \in 1..n : j # k => s[j] # s[k]
          /\ \A j, k \in 1..n :
                j < k => ops[s[j]].created_at <= ops[s[k]].created_at}

\* One pass of `while true`: read the pending rows.
monitor_operations(d) ==
    /\ d \in workers
    /\ dpc[d] = "sleep"
    /\ PendingIds # {}
    /\ \E s \in PendingOrders :
          dlist' = [dlist EXCEPT ![d] =
                        [j \in DOMAIN s |-> <<s[j], ops[s[j]].type>>]]
    /\ dpc' = [dpc EXCEPT ![d] = "loop"]
    /\ UNCHANGED <<ops, archive, nextId, now, workers, handler, wpc, wlist,
                   crashes, cycleStuck, sweepDue, swept, termSince, result, runs, controllers, wall,
                   reported>>

\* The inner `while read` moves to the next line, or falls through to sleep.
NextLine(d) ==
    /\ dlist' = [dlist EXCEPT ![d] = Tail(dlist[d])]
    /\ dpc' = [dpc EXCEPT ![d] =
                  IF Tail(dlist[d]) = <<>> THEN "sleep" ELSE "loop"]

\* ProcessNoHandler that returns 1 without the status write.
ProcessNoHandlerSilent(d) ==
    /\ d \in workers
    /\ dpc[d] = "loop"
    /\ ~HasHandler(Head(dlist[d])[2])
    /\ NextLine(d)
    /\ UNCHANGED <<ops, archive, nextId, now, workers, handler, result, wpc,
                   wlist, crashes, cycleStuck, sweepDue, swept, termSince,
                   runs, controllers, wall,
                   reported>>

\* process_operation, no registry entry for the type.
ProcessNoHandler(d) ==
    /\ d \in workers
    /\ dpc[d] = "loop"
    /\ LET id == Head(dlist[d])[1]
           type == Head(dlist[d])[2]
       IN /\ ~HasHandler(type)
          /\ Write(update_operation_status(ops, id, "failed",
                                           "No handler configured"))
    /\ NextLine(d)
    /\ UNCHANGED <<archive, nextId, now, workers, handler, wpc, wlist,
                   crashes, cycleStuck, sweepDue, swept, result, runs, controllers, wall,
                   reported>>

\* process_operation, entry present but [[ -x ]] fails.
ProcessUnavailable(d) ==
    /\ d \in workers
    /\ dpc[d] = "loop"
    /\ LET id == Head(dlist[d])[1]
           type == Head(dlist[d])[2]
       IN /\ HasHandler(type)
          /\ \E executable \in BOOLEAN : ~(IsPath(type) /\ executable)
          /\ Write(update_operation_status(ops, id, "failed",
                                           "Handler script not available"))
    /\ NextLine(d)
    /\ UNCHANGED <<archive, nextId, now, workers, handler, wpc, wlist,
                   crashes, cycleStuck, sweepDue, swept, result, runs, controllers, wall,
                   reported>>

\* ProcessExec that does not wait for the handler it has started.
ProcessExecBackground(d) ==
    /\ d \in workers
    /\ dpc[d] \in {"loop", "wait"}
    /\ LET id == Head(dlist[d])[1]
           type == Head(dlist[d])[2]
       IN /\ HasHandler(type)
          /\ IsPath(type)
          /\ handler' = [handler EXCEPT ![d] =
                [pc |-> "start", script |-> OPERATION_HANDLERS[type].script,
                 operation |-> type, id |-> id]]
          /\ runs' = [runs EXCEPT ![id].started =
                                      IF @ < MaxRuns THEN @ + 1 ELSE @]
    /\ dpc' = [dpc EXCEPT ![d] = "wait"]
    /\ UNCHANGED <<ops, archive, nextId, now, workers, dlist, result, wpc,
                   wlist, crashes, cycleStuck, sweepDue, swept, termSince, controllers, wall,
                   reported>>

\* process_operation, handler started: "$handler_script" "$type" "$id".
ProcessExec(d) ==
    /\ d \in workers
    /\ dpc[d] = "loop"
    /\ LET id == Head(dlist[d])[1]
           type == Head(dlist[d])[2]
       IN /\ HasHandler(type)
          /\ IsPath(type)
          /\ handler' = [handler EXCEPT ![d] =
                [pc |-> "start", script |-> OPERATION_HANDLERS[type].script,
                 operation |-> type, id |-> id]]
          /\ runs' = [runs EXCEPT ![id].started =
                                      IF @ < MaxRuns THEN @ + 1 ELSE @]
    /\ dpc' = [dpc EXCEPT ![d] = "wait"]
    /\ UNCHANGED <<ops, archive, nextId, now, workers, dlist, result, wpc,
                   wlist, crashes, cycleStuck, sweepDue, swept, termSince, controllers, wall,
                   reported>>

(***************************************************************************)
(* Handlers: manage_site.sh and manage_user.sh.                            *)
(***************************************************************************)
\* The handler process ends with exit code `code`; process_operation takes
\* it as $result, logs, and returns to the read loop.  newOps is the table
\* the handler leaves behind.
HandlerExit(d, code, newOps) ==
    /\ handler' = [handler EXCEPT ![d] = NoHandler]
    /\ result' = [result EXCEPT ![d] = code]
    /\ LET id == handler[d].id
       IN runs' = IF /\ id \in DOMAIN newOps
                     /\ newOps[id].status \in {"processing", "completed"}
                  THEN runs
                  ELSE [runs EXCEPT ![id].stray = TRUE]
    /\ NextLine(d)

\* manage_site.sh main up to the case: validate, mark processing, dispatch.
SiteMain(d) ==
    /\ d \in workers
    /\ handler[d].pc = "start"
    /\ handler[d].script = "manage_site.sh"
    /\ LET h == handler[d]
       IN IF get_operation_data(h.id) = "bad"
          THEN /\ HandlerExit(d, 1, ops)
               /\ UNCHANGED <<ops, termSince>>
          ELSE /\ Write(update_operation_status(ops, h.id, "processing", ""))
               /\ IF h.operation \in SubActions(h.script)
                  THEN /\ handler' = [handler EXCEPT ![d].pc = "action"]
                       /\ UNCHANGED <<dpc, dlist, result, runs>>
                  ELSE HandlerExit(d, 1, update_operation_status(
                                            ops, h.id, "processing", ""))
    /\ UNCHANGED <<archive, nextId, now, workers, wpc, wlist, crashes,
                   cycleStuck, sweepDue, swept, controllers, wall,
                   reported>>

\* manage_user.sh: the case on $1, then validate_username; no status write.
UserMain(d) ==
    /\ d \in workers
    /\ handler[d].pc = "start"
    /\ handler[d].script = "manage_user.sh"
    /\ LET h == handler[d]
       IN IF h.operation \in SubActions(h.script)
             /\ get_operation_data(h.id) # "bad"
          THEN /\ handler' = [handler EXCEPT ![d].pc = "action"]
               /\ UNCHANGED <<dpc, dlist, result, runs>>
          ELSE HandlerExit(d, 1, ops)
    /\ UNCHANGED <<ops, archive, nextId, now, workers, wpc, wlist, crashes,
                   cycleStuck, sweepDue, swept, termSince, controllers, wall,
                   reported>>

\* The clpctl command returned 0: update_operation_status ... "completed".
CommandSucceeds(d) ==
    /\ d \in workers
    /\ handler[d].pc = "action"
    /\ Write(update_operation_status(ops, handler[d].id, "completed", ""))
    /\ HandlerExit(d, 0, update_operation_status(ops, handler[d].id,
                                                 "completed", ""))
    /\ UNCHANGED <<archive, nextId, now, workers, wpc, wlist, crashes,
                   cycleStuck, sweepDue, swept, controllers, wall,
                   reported>>

\* A command failed and the script ended under `set -e`, or the process was
\* killed: a non-zero exit code and nothing written.
HandlerAbort(d) ==
    /\ d \in workers
    /\ handler[d].pc \in {"start", "action"}
    /\ HandlerExit(d, 1, ops)
    /\ UNCHANGED <<ops, archive, nextId, now, workers, wpc, wlist, crashes,
                   cycleStuck, sweepDue, swept, termSince, controllers, wall,
                   reported>>

(***************************************************************************)
(* Watchdog: status_monitor.sh.                                            *)
(***************************************************************************)
\* datetime('now', '-N minutes') > ts ; a NULL timestamp never compares true.
Older(ts, minutes) == ts # NULL /\ now - minutes > ts

\* StuckIds with the interval of the timeout query.
StuckIdsHour ==
    {i \in DOMAIN ops : /\ ops[i].status = "processing"
                        /\ Older(ops[i].started_at, TimeoutMinutes)}

\* SELECT ... WHERE status = 'processing' AND datetime('now','-30 minutes') > started_at
StuckIds ==
    {i \in DOMAIN ops : /\ ops[i].status = "processing"
                        /\ Older(ops[i].started_at, StuckMinutes)}

\* TimedOutIds without the status condition.
TimedOutIdsAnyStatus ==
    {i \in DOMAIN ops : Older(ops[i].started_at, TimeoutMinutes)}

\* SELECT ... WHERE status = 'processing' AND datetime('now','-1 hour') > started_at
TimedOutIds ==
    {i \in DOMAIN ops : /\ ops[i].status = "processing"
                        /\ Older(ops[i].started_at, TimeoutMinutes)}

\* The row is stalled: processing for longer than the stuck threshold.
Stalled(row) ==
    /\ row.status = "processing"
    /\ row.started_at # NULL
    /\ now - row.started_at > StuckMinutes

\* CanRetry with -le in place of -lt.
CanRetryLoose(retries) == retries <= MAX_RETRIES

\* The retry-or-fail decision on the retry count just read: [[ $retries -lt $MAX_RETRIES ]]
CanRetry(retries) == retries < MAX_RETRIES

\* RetryOrFail whose fail branch counts one more retry.
RetryOrFailCountsFailure(row, retryNote, failNote) ==
    IF CanRetry(row.retry_count)
    THEN [row EXCEPT !.status = "pending",
                     !.retry_count = row.retry_count + 1,
                     !.error = retryNote]
    ELSE [row EXCEPT !.status = "failed", !.error = failNote,
                     !.retry_count = row.retry_count + 1]

\* RetryOrFail whose retry branch stamps created_at anew.
RetryOrFailRestamp(row, retryNote, failNote) ==
    IF CanRetry(row.retry_count)
    THEN [row EXCEPT !.status = "pending",
                     !.retry_count = row.retry_count + 1,
                     !.error = retryNote,
                     !.created_at = now]
    ELSE [row EXCEPT !.status = "failed", !.error = failNote]

\* RetryOrFail whose retry branch leaves retry_count as it is.
RetryOrFailUncounted(row, retryNote, failNote) ==
    IF CanRetry(row.retry_count)
    THEN [row EXCEPT !.status = "pending", !.error = retryNote]
    ELSE [row EXCEPT !.status = "failed", !.error = failNote]

\* The UPDATE of handle_stuck_operation / handle_timeout.
RetryOrFail(row, retryNote, failNote) ==
    IF CanRetry(row.retry_count)
    THEN [row EXCEPT !.status = "pending",
                     !.retry_count = row.retry_count + 1,
                     !.error = retryNote]
    ELSE [row EXCEPT !.status = "failed", !.error = failNote]

\* Top of the `while true` loop: check_stuck_operations reads its list.
check_stuck_operations ==
    /\ wpc = "sleep"
    /\ wlist' = StuckIds
    /\ wpc' = "stuck_loop"
    /\ cycleStuck' = {<<i, ops[i].started_at, now>> :
                         i \in {j \in DOMAIN ops : Stalled(ops[j])}}
    /\ sweepDue' = {}
    /\ swept' = FALSE
    /\ UNCHANGED <<ops, archive, nextId, now, workers, dpc, dlist, handler,
                   crashes, termSince, result, runs, controllers, wall,
                   reported>>

handle_stuck_operation(i) ==
    /\ wpc = "stuck_loop"
    /\ i \in wlist
    /\ Write(UpdateRow(ops, i,
             [row \in {ops[j] : j \in DOMAIN ops} |->
                 RetryOrFail(row, "Operation stuck - attempting retry",
                             "Operation failed after 3 retries")]))
    /\ wlist' = wlist \ {i}
    /\ UNCHANGED <<archive, nextId, now, workers, dpc, dlist, handler, wpc,
                   crashes, cycleStuck, sweepDue, swept, result, runs, controllers, wall,
                   reported>>

check_timed_out_operations ==
    /\ wpc = "stuck_loop"
    /\ wlist = {}
    /\ wlist' = TimedOutIds
    /\ wpc' = "timeout_loop"
    /\ UNCHANGED <<ops, archive, nextId, now, workers, dpc, dlist, handler,
                   crashes, cycleStuck, sweepDue, swept, termSince, result, runs, controllers, wall,
                   reported>>

\* handle_timeout that writes the notes of handle_stuck_operation.
handle_timeout_as_stuck(i) ==
    /\ wpc = "timeout_loop"
    /\ i \in wlist
    /\ Write(UpdateRow(ops, i,
             [row \in {ops[j] : j \in DOMAIN ops} |->
                 RetryOrFail(row, "Operation stuck - attempting retry",
                             "Operation failed after 3 retries")]))
    /\ wlist' = wlist \ {i}
    /\ UNCHANGED <<archive, nextId, now, workers, dpc, dlist, handler, wpc,
                   crashes, cycleStuck, sweepDue, swept, result, runs, controllers, wall,
                   reported>>

handle_timeout(i) ==
    /\ wpc = "timeout_loop"
    /\ i \in wlist
    /\ Write(UpdateRow(ops, i,
             [row \in {ops[j] : j \in DOMAIN ops} |->
                 RetryOrFail(row, "Operation timed out - attempting retry",
                             "Operation timed out after 3 retries")]))
    /\ wlist' = wlist \ {i}
    /\ UNCHANGED <<archive, nextId, now, workers, dpc, dlist, handler, wpc,
                   crashes, cycleStuck, sweepDue, swept, result, runs, controllers, wall,
                   reported>>

\* [[ $(date +%H:%M) == "00:00" ]] is false: straight to sleep.
SkipDaily ==
    /\ wpc = "timeout_loop"
    /\ wlist = {}
    /\ wpc' = "sleep"
    /\ UNCHANGED <<ops, archive, nextId, now, workers, dpc, dlist, handler,
                   wlist, crashes, cycleStuck, sweepDue, swept, termSince, result, runs, controllers, wall,
                   reported>>

\* ArchivableIds without the status condition.
ArchivableIdsAnyStatus ==
    {i \in DOMAIN ops : Older(ops[i].completed_at, RetentionMinutes)}

\* WHERE status IN ('completed','failed') AND datetime('now','-30 days') > completed_at
ArchivableIds ==
    {i \in DOMAIN ops : /\ Terminal(ops[i])
                        /\ Older(ops[i].completed_at, RetentionMinutes)}

\* Rows that have been terminal for longer than the retention.
DueIds ==
    {i \in DOMAIN ops : /\ Terminal(ops[i])
                        /\ now - termSince[i] > RetentionMinutes}

\* cleanup_old_operations, first statement: INSERT INTO operations_archive.
\* (generate_status_report before it only reads.)
CleanupInsert ==
    /\ wpc = "timeout_loop"
    /\ wlist = {}
    /\ archive' = archive (+) SetToBag({ops[i] : i \in ArchivableIds})
    /\ wpc' = "delete"
    /\ sweepDue' = DueIds
    /\ UNCHANGED <<ops, nextId, now, workers, dpc, dlist, handler, wlist,
                   crashes, cycleStuck, swept, termSince, result, runs, controllers, wall,
                   reported>>

\* cleanup_old_operations, second statement: DELETE FROM operations.
CleanupDelete ==
    /\ wpc = "delete"
    /\ Write([i \in DOMAIN ops \ ArchivableIds |-> ops[i]])
    /\ wpc' = "sleep"
    /\ swept' = TRUE
    /\ UNCHANGED <<archive, nextId, now, workers, dpc, dlist, handler, wlist,
                   crashes, cycleStuck, sweepDue, result, runs, controllers, wall,
                   reported>>

\* The status monitor dies between the two statements and is started again.
MonitorRestart ==
    /\ wpc = "delete"
    /\ crashes < MaxCrashes
    /\ crashes' = crashes + 1
    /\ wpc' = "sleep"
    /\ cycleStuck' = {}
    /\ sweepDue' = {}
    /\ swept' = FALSE
    /\ UNCHANGED <<ops, archive, nextId, now, workers, dpc, dlist, handler,
                   wlist, termSince, result, runs, controllers, wall,
                   reported>>

(***************************************************************************)
(* Specifications.                                                         *)
(***************************************************************************)
\* Requests the API enqueues, and rows the panel's own path writes.
ApiRequests ==
    {<<"create", "ok">>, <<"create", "bad">>, <<"update", "ok">>,
     <<"reset_password", "ok">>, <<"reset_password", "bad">>,
     <<"site.create", "ok">>, <<"bogus", "ok">>}

UiRows == {<<"create", "ok">>, <<"reset_password", "ok">>}

Producer ==
    \/ \E r \in ApiRequests : create_operation(r[1], r[2])
    \/ \E r \in UiRows : ui_insert(r[1], r[2])

Clock == \E step \in {ShortStep, LongStep} : AdvanceClock(step)

Dispatcher == \E d \in WorkerIds :
    \/ monitor_operations(d)
    \/ ProcessNoHandler(d)
    \/ ProcessUnavailable(d)
    \/ ProcessExec(d)

Handlers == \E d \in WorkerIds :
    \/ SiteMain(d)
    \/ UserMain(d)
    \/ CommandSucceeds(d)
    \/ HandlerAbort(d)

Watchdog ==
    \/ check_stuck_operations
    \/ \E i \in wlist : handle_stuck_operation(i)
    \/ check_timed_out_operations
    \/ \E i \in wlist : handle_timeout(i)
    \/ SkipDaily
    \/ CleanupInsert
    \/ CleanupDelete
    \/ MonitorRestart

Next == Producer \/ Clock \/ Dispatcher \/ Handlers \/ Watchdog

Spec == Init /\ [][Next]_vars

\* Two queue workers on one database, the status monitor not running.
NextWorkers == Producer \/ Dispatcher \/ Handlers

SpecMulti == InitMulti /\ [][NextWorkers]_vars

\* The same system with a status monitor that is never restarted mid-sweep.
WatchdogSteady ==
    \/ check_stuck_operations
    \/ \E i \in wlist : handle_stuck_operation(i)
    \/ check_timed_out_operations
    \/ \E i \in wlist : handle_timeout(i)
    \/ SkipDaily
    \/ CleanupInsert
    \/ CleanupDelete

NextSteady == Producer \/ Clock \/ Dispatcher \/ Handlers \/ WatchdogSteady

SpecSteady == Init /\ [][NextSteady]_vars

\* One queue worker and two operations; the status monitor is not running.
PairRequests ==
    {<<"create", "ok">>, <<"create", "bad">>, <<"reset_password", "ok">>,
     <<"bogus", "ok">>}

ProducerPair ==
    /\ \E r \in PairRequests : InsertRow(r[1], r[2], "api", MaxPairOps)
    /\ UNCHANGED <<controllers, wall, reported>>

ClockPair ==
    /\ now < MaxPairTicks * ShortStep
    /\ AdvanceClock(ShortStep)

NextPair == ProducerPair \/ ClockPair \/ Dispatcher \/ Handlers

SpecPair == Init /\ [][NextPair]_vars

(***************************************************************************)
(* Properties.                                                             *)
(***************************************************************************)
\* One step of a row along pending -> processing -> {completed, failed},
\* with processing -> pending allowed while retries remain.
PathStep(row, next) ==
    \/ next.status = row.status
    \/ row.status = "pending" /\ next.status = "processing"
    \/ row.status = "processing" /\ next.status \in {"completed", "failed"}
    \/ /\ row.status = "processing" /\ next.status = "pending"
       /\ row.retry_count < MAX_RETRIES
       /\ next.retry_count = row.retry_count + 1

\* C1: every row starts pending and every change of its status is a step of
\* pending -> processing -> {completed, failed}; the only backward step is
\* processing -> pending, taken at most MAX_RETRIES times (each one counts
\* in retry_count).
C1_StatusPath ==
    [][/\ \A i \in DOMAIN ops' \ DOMAIN ops : ops'[i].status = "pending"
       /\ \A i \in DOMAIN ops \cap DOMAIN ops' : PathStep(ops[i], ops'[i])]_vars

\* C2: no two handler invocations for the same operation id are in progress
\* at the same time, also with two queue workers on one database.
C2_OneInvocation ==
    \A d1, d2 \in workers :
        (d1 # d2 /\ handler[d1].pc # "none" /\ handler[d2].pc # "none")
            => handler[d1].id # handler[d2].id

\* C3: completed and failed are absorbing: no step changes the status of a
\* terminal row, and no handler is started for one.
C3_TerminalAbsorbing ==
    [][\A i \in DOMAIN ops \cap DOMAIN ops' :
          Terminal(ops[i]) =>
            /\ ops'[i].status = ops[i].status
            /\ \A d \in workers :
                  (handler[d].pc = "none" /\ handler'[d].pc = "start")
                      => handler'[d].id # i]_vars

\* C4: retry_count never exceeds MAX_RETRIES and never decreases.
C4_RetryBounded ==
    /\ [](\A i \in DOMAIN ops : ops[i].retry_count <= MAX_RETRIES)
    /\ [][\A i \in DOMAIN ops \cap DOMAIN ops' :
             ops'[i].retry_count >= ops[i].retry_count]_vars

\* C4 witness: the Watchdog met a stalled row at the retry limit and failed it.
C4_Exhausted ==
    \E i \in DOMAIN ops :
        /\ ops[i].retry_count = MAX_RETRIES
        /\ ops[i].status = "failed"
        /\ ops[i].error = "Operation failed after 3 retries"

\* C5: when a Watchdog cycle ends, no row that was stalled (processing, with
\* started_at older than the stuck threshold) when the cycle began is still
\* in that stall (processing with the same started_at).
C5_StuckResolved ==
    wpc = "sleep" =>
        \A p \in cycleStuck :
            ~(/\ p[1] \in DOMAIN ops
              /\ ops[p[1]].status = "processing"
              /\ ops[p[1]].started_at = p[2])

\* C5 witness: a cycle that began with a stalled row has ended and the row
\* is back in pending with its retry counted.
C5_CycleReset ==
    /\ wpc = "sleep"
    /\ \E p \in cycleStuck :
          /\ p[1] \in DOMAIN ops
          /\ ops[p[1]].status = "pending"
          /\ ops[p[1]].retry_count > 0
          /\ ops[p[1]].error = "Operation stuck - attempting retry"

\* C6: every completed or failed row has completed_at set.
C6_TerminalHasCompletedAt ==
    \A i \in DOMAIN ops : Terminal(ops[i]) => ops[i].completed_at # NULL

\* Number of archive rows that carry the id, and whether it is exactly one.
ArchivedRows(i) == {r \in BagToSet(archive) : r.id = i}

ArchivedOnce(i) ==
    /\ Cardinality(ArchivedRows(i)) = 1
    /\ \A r \in ArchivedRows(i) : CopiesIn(r, archive) = 1

\* C7: after a completed daily sweep, every row that had been terminal for
\* longer than the retention when the sweep began is in the archive exactly
\* once and no longer in the live table.
C7_SweepArchives ==
    (wpc = "sleep" /\ swept) =>
        \A i \in sweepDue : i \notin DOMAIN ops /\ ArchivedOnce(i)

\* C8: outside the sweep itself, no operation has left the live table
\* without being archived, none is in both tables, and none is in the
\* archive twice.
C8_ArchiveAtomic ==
    wpc # "delete" =>
        \A i \in 1..(nextId - 1) :
            /\ i \notin DOMAIN ops => ArchivedRows(i) # {}
            /\ i \in DOMAIN ops => ArchivedRows(i) = {}
            /\ ArchivedRows(i) # {} => ArchivedOnce(i)

\* C9: a row with source = ui is never put on a queue worker's list, never
\* handed to a handler, and no step changes its status, retry_count or error.
C9_UiUntouched ==
    [][\A i \in DOMAIN ops \cap DOMAIN ops' :
          ops[i].source = "ui" =>
            /\ ops'[i].status = ops[i].status
            /\ ops'[i].retry_count = ops[i].retry_count
            /\ ops'[i].error = ops[i].error
            /\ \A d \in workers :
                  \A k \in DOMAIN dlist'[d] : dlist'[d][k][1] # i]_vars

\* C10: a handler started for a row whose source is not api ends at its
\* first step, leaves the row as it was and does not reach its action.
C10_HandlerSkipsNonApi ==
    [][\A d \in workers :
          (/\ handler[d].pc = "start"
           /\ handler'[d] # handler[d]
           /\ handler[d].id \in DOMAIN ops
           /\ ops[handler[d].id].source # "api")
            => /\ handler'[d] = NoHandler
               /\ ops' = ops]_vars

\* C11: when a handler run ends, its row is not left in processing: if the
\* handler did not write a terminal status itself, the queue worker writes
\* completed for exit code 0 and failed for any other.
C11_ExitSettlesRow ==
    [][\A d \in workers :
          (/\ handler[d].pc # "none"
           /\ handler'[d].pc = "none"
           /\ handler[d].id \in DOMAIN ops')
            => LET row == ops'[handler[d].id]
               IN /\ row.status # "processing"
                  /\ result'[d] = 0 => row.status = "completed"]_vars

\* A handler run of worker d ends in this step.
RunEnds(d) == handler[d].pc # "none" /\ handler'[d].pc = "none"

\* The run of worker d is at a handler-local error: its payload does not
\* validate, its sub-action is not one the script knows, or it is past both
\* checks and its command fails.
LocalError(d) ==
    \/ get_operation_data(handler[d].id) = "bad"
    \/ handler[d].operation \notin SubActions(handler[d].script)
    \/ handler[d].pc = "action"

\* C12: a handler run that ends with an error (payload validation failure,
\* unknown sub-action, failed command: any non-zero exit code) leaves its
\* operation failed with a non-empty error, never pending or processing.
C12_HandlerErrorFails ==
    [][\A d \in workers :
          (/\ RunEnds(d) /\ result'[d] # 0 /\ handler[d].id \in DOMAIN ops'
           /\ LocalError(d))
            => LET row == ops'[handler[d].id]
               IN row.status = "failed" /\ row.error # NoError]_vars

\* The errors process_operation writes itself.
DispatchErrors == {"No handler configured", "Handler script not available"}

\* C13: when the queue worker processes a row and starts no handler for it
\* (no registry entry, or the entry is not an executable file), the row is
\* failed in that step with the matching error and its retry_count is as
\* before; a type without a usable entry never gets a handler started; and a
\* row failed this way is never changed again.
C13_DispatchFailure ==
    [][/\ \A d \in workers :
            dpc[d] = "loop" =>
               LET id == Head(dlist[d])[1]
                   type == Head(dlist[d])[2]
               IN /\ (~HasHandler(type) \/ ~IsPath(type))
                        => handler'[d] = NoHandler
                  /\ (dlist'[d] # dlist[d] /\ id \in DOMAIN ops)
                        => /\ ops'[id].status = "failed"
                           /\ ops'[id].error =
                                 IF HasHandler(type)
                                 THEN "Handler script not available"
                                 ELSE "No handler configured"
                           /\ ops'[id].retry_count = ops[id].retry_count
       /\ \A i \in DOMAIN ops \cap DOMAIN ops' :
            (ops[i].status = "failed" /\ ops[i].error \in DispatchErrors)
                => ops'[i] = ops[i]]_vars

\* C13 witness: a row the queue worker failed for want of a handler, still
\* failed with its retry_count at 0 after the status monitor has run a cycle.
C13_Rejected ==
    \E i \in DOMAIN ops :
        /\ ops[i].status = "failed"
        /\ ops[i].error \in DispatchErrors
        /\ ops[i].retry_count = 0
        /\ runs[i].started = 0
        /\ now > ops[i].completed_at
        /\ wpc = "timeout_loop"

\* The error the status monitor writes when the retries are used up.
ExhaustedError == "Operation failed after 3 retries"

\* C14: an operation whose handler fails on every attempt is retried a
\* bounded number of times and then failed for good: no operation gets more
\* handler runs than one plus MAX_RETRIES; a run that ends with a non-zero
\* exit code leaves the row failed only when the retries are used up, and
\* then with exactly the error "Operation failed after 3 retries"; a row
\* failed with that error is never changed again.
C14_FailingHandlerExhausts ==
    /\ [](\A i \in DOMAIN runs : runs[i].started <= MAX_RETRIES + 1)
    /\ [][/\ \A d \in workers :
               (RunEnds(d) /\ result'[d] # 0 /\ handler[d].id \in DOMAIN ops')
                 => LET row == ops'[handler[d].id]
                    IN row.status = "failed"
                         => /\ row.retry_count = MAX_RETRIES
                            /\ row.error = ExhaustedError
          /\ \A i \in DOMAIN ops \cap DOMAIN ops' :
               (ops[i].status = "failed" /\ ops[i].error = ExhaustedError)
                   => ops'[i] = ops[i]]_vars

\* The last run of the row ended within the stuck threshold of its start.
Quick(row) ==
    /\ row.started_at # NULL
    /\ row.completed_at # NULL
    /\ row.completed_at - row.started_at <= StuckMinutes

Waiting(row) ==
    /\ row.source = "api"
    /\ HasHandler(row.type)
    /\ row.status = "pending"
    /\ runs[row.id].started = 0

\* C16: an api operation of a registered type does not wait for other
\* operations: time (far more than one poll interval, a clock step being
\* minutes) never passes over such a row still pending and never started
\* while the queue worker is occupied with the handler of another operation.
C16_PromptStart ==
    [][now' > now =>
          \A i \in DOMAIN ops :
              Waiting(ops[i]) =>
                  \A d \in workers :
                      ~(handler[d].pc # "none" /\ handler[d].id # i)]_vars

\* C17: a handler run that ends with exit code 0 and leaves its operation
\* completed leaves it with a result.
C17_CompletedHasResult ==
    [][\A d \in workers :
          (/\ RunEnds(d) /\ result'[d] = 0
           /\ handler[d].id \in DOMAIN ops'
           /\ ops'[handler[d].id].status = "completed")
            => ops'[handler[d].id].result # NULL]_vars

\* A handler run is started for worker d in this step.
RunStarts(d) == handler'[d].pc = "start" /\ handler'[d] # handler[d]

\* C18: the queue worker runs the rows of a poll in ascending created_at
\* order: when it starts the handler of a row, no row created earlier is
\* still waiting in the list of that poll, and the handler of the row before
\* it has ended.
C18_CreationOrder ==
    [][\A d \in workers :
          RunStarts(d) =>
             /\ handler[d].pc = "none"
             /\ \A k \in DOMAIN dlist[d] :
                   LET a == dlist[d][k][1]
                       b == handler'[d].id
                   IN (a \in DOMAIN ops /\ b \in DOMAIN ops)
                         => ops[a].created_at >= ops[b].created_at]_vars

\* C18 witness: a poll read two pending rows, the older one is being run and
\* the newer one waits behind it.
C18_OlderFirst ==
    \E d \in workers :
        /\ handler[d].pc = "action"
        /\ Len(dlist[d]) = 2
        /\ handler[d].id = dlist[d][1][1]
        /\ ops[dlist[d][1][1]].created_at < ops[dlist[d][2][1]].created_at
        /\ ops[dlist[d][2][1]].status = "pending"

\* C19: with one queue worker at most one handler run is in progress: a run
\* is started only when no run of the worker is in progress, and while one
\* is in progress the worker waits for it.
C19_OneAtATime ==
    /\ [](Cardinality(workers) = 1)
    /\ [](\A d \in workers : handler[d].pc # "none" => dpc[d] = "wait")
    /\ [][\A d \in workers : RunStarts(d) => handler[d].pc = "none"]_vars

\* C19 witness: the handler of the second row of a poll is running after the
\* handler of the first row has ended.
C19_SecondAfterFirst ==
    \E d \in workers :
        /\ handler[d].pc # "none"
        /\ result[d] # NULL
        /\ Len(dlist[d]) = 1
        /\ handler[d].id = 2
        /\ runs[1].started = 1
        /\ runs[2].started = 1
        /\ ops[1].created_at < ops[2].created_at

\* C20: a row created by create_operation starts with status pending,
\* retry_count 0, started_at and completed_at unset and source api, whatever
\* its type; the rejection of a type without a registry entry (the error
\* "No handler configured") is written only by the queue worker, in the step
\* in which it processes the row.
C20_EnqueuedRow ==
    [][/\ \A i \in DOMAIN ops' \ DOMAIN ops :
            ops'[i].source = "api" =>
               /\ ops'[i].status = "pending"
               /\ ops'[i].retry_count = 0
               /\ ops'[i].started_at = NULL
               /\ ops'[i].completed_at = NULL
               /\ ops'[i].type \in Types
       /\ \A i \in DOMAIN ops \cap DOMAIN ops' :
            (/\ ops'[i].error = "No handler configured"
             /\ ops[i].error # "No handler configured")
               => /\ ~HasHandler(ops[i].type)
                  /\ ops'[i].status = "failed"
                  /\ \E d \in workers :
                        /\ dpc[d] = "loop"
                        /\ Head(dlist[d])[1] = i
                        /\ dlist'[d] = Tail(dlist[d])]_vars

\* C20 witness: an api row of a type without a registry entry was accepted
\* and is waiting, as created, for the queue worker.
C20_UnknownTypeAccepted ==
    \E i \in DOMAIN ops :
        /\ ~HasHandler(ops[i].type)
        /\ ops[i].source = "api"
        /\ ops[i].status = "pending"
        /\ ops[i].retry_count = 0
        /\ ops[i].started_at = NULL
        /\ ops[i].completed_at = NULL
        /\ now > ops[i].created_at

\* The notes the status monitor writes with a reset.
RetryNotes ==
    {"Operation stuck - attempting retry",
     "Operation timed out - attempting retry"}

\* C21: a reset takes a processing row to pending with retry_count one
\* higher, started_at and completed_at cleared and the retry note in error;
\* so every pending row has started_at unset.
C21_ResetClears ==
    /\ [][\A i \in DOMAIN ops \cap DOMAIN ops' :
             (ops[i].status = "processing" /\ ops'[i].status = "pending")
                => /\ ops'[i].retry_count = ops[i].retry_count + 1
                   /\ ops'[i].started_at = NULL
                   /\ ops'[i].completed_at = NULL
                   /\ ops'[i].error \in RetryNotes]_vars
    /\ [](\A i \in DOMAIN ops :
             ops[i].status = "pending" => ops[i].started_at = NULL)

\* The status monitor handles row i of its list in this step.
Handles(i) == i \in wlist /\ i \notin wlist' /\ wpc \in {"stuck_loop", "timeout_loop"}

\* C22: the status monitor's reset and fail writes act only on a row that is
\* processing when the write is made: when it handles a listed row that a
\* handler has meanwhile completed or failed, the row's status, retry_count
\* and error stay as the handler wrote them.
C22_WriteOnlyProcessing ==
    [][\A i \in DOMAIN ops \cap DOMAIN ops' :
          (Handles(i) /\ ops[i].status # "processing")
             => /\ ops'[i].status = ops[i].status
                /\ ops'[i].retry_count = ops[i].retry_count
                /\ ops'[i].error = ops[i].error]_vars

\* C23: every processing row has started_at set, and started_at is written
\* by the step that sets the status to processing: a row entering processing
\* gets started_at = now, and while it stays processing its started_at only
\* changes by being written again with the status.
C23_ProcessingHasStart ==
    /\ [](\A i \in DOMAIN ops :
             ops[i].status = "processing" => ops[i].started_at # NULL)
    /\ [][\A i \in DOMAIN ops \cap DOMAIN ops' :
             ops'[i].status = "processing"
                => IF ops[i].status = "processing"
                   THEN ops'[i].started_at \in {ops[i].started_at, now}
                   ELSE ops'[i].started_at = now]_vars

\* C23 witness: a row that was reset has entered processing again and its
\* started_at is the time of that step, not of the stalled run.
C23_Restarted ==
    \E i \in DOMAIN ops :
        /\ ops[i].status = "processing"
        /\ ops[i].retry_count = 1
        /\ ops[i].started_at = now
        /\ now > ops[i].created_at

\* The columns set at creation.
Identity(row) ==
    [id |-> row.id, type |-> row.type, data |-> row.data,
     source |-> row.source, created_at |-> row.created_at]

\* C24: while a row is in the live table no step changes its id, type, data,
\* source or created_at.
C24_IdentityKept ==
    [][\A i \in DOMAIN ops \cap DOMAIN ops' :
          Identity(ops'[i]) = Identity(ops[i])]_vars

\* C24 witness: a row that has been marked processing, reset by the status
\* monitor, run again and completed still carries what it was created with.
C24_KeptThroughRetry ==
    \E i \in DOMAIN ops :
        /\ ops[i].status = "completed"
        /\ ops[i].retry_count >= 1
        /\ ops[i].id = i
        /\ ops[i].source = "api"
        /\ ops[i].type = "create"
        /\ ops[i].data = "ok"
        /\ ops[i].created_at < ops[i].started_at

\* C25: retry_count changes only in a reset by the status monitor, which
\* adds one; every other step, the status monitor's fail on exhaustion
\* included, leaves it as it is.
C25_RetryCountWriters ==
    [][\A i \in DOMAIN ops \cap DOMAIN ops' :
          /\ ops'[i].retry_count # ops[i].retry_count
                => /\ Handles(i)
                   /\ ops'[i].status = "pending"
                   /\ ops'[i].retry_count = ops[i].retry_count + 1
          /\ (Handles(i) /\ ops'[i].status = "failed")
                => ops'[i].retry_count = ops[i].retry_count]_vars

\* C25 witness: four handler runs and three resets later the status monitor
\* has failed the row, retry_count still 3.
C25_FailedAtLimit ==
    \E i \in DOMAIN ops :
        /\ ops[i].status = "failed"
        /\ ops[i].error \in {"Operation failed after 3 retries",
                             "Operation timed out after 3 retries"}
        /\ runs[i].started = MAX_RETRIES + 1
        /\ ops[i].retry_count = MAX_RETRIES

\* C26: error is written only by a step that sets the status to failed: a
\* step that leaves the row pending, processing or completed either keeps
\* its error or clears it.
C26_ErrorOnlyWithFailed ==
    [][\A i \in DOMAIN ops \cap DOMAIN ops' :
          (ops'[i].error # ops[i].error /\ ops'[i].status # "failed")
             => ops'[i].error = NoError]_vars

(***************************************************************************)
(* The API layer of ControllerAdapter.js.  wrapWithOrchestration enqueues  *)
(* the operation, answers the client, and then runs the wrapped controller *)
(* method without awaiting it; when that promise rejects, its catch calls  *)
(* updateOperationStatus(operationId, FAILED, error.message).  The body of *)
(* OrchestratorService is not part of the sources: the write is modelled   *)
(* by the arguments of the call, and whether it also stamps completed_at   *)
(* is left open.                                                           *)
(***************************************************************************)
ControllerError == "controller error"

wrapWithOrchestration(type, data) ==
    /\ InsertRow(type, data, "api", MaxPairOps)
    /\ controllers' = controllers \cup {nextId}
    /\ UNCHANGED <<wall, reported>>

\* controllerMethod(req, res, next) resolves: nothing is written.
controller_resolves(i) ==
    /\ i \in controllers
    /\ controllers' = controllers \ {i}
    /\ UNCHANGED <<ops, termSince, archive, nextId, now, workers, dpc, dlist,
                   handler, result, wpc, wlist, crashes, cycleStuck, sweepDue,
                   swept, runs, wall,
                   reported>>

\* controllerMethod(req, res, next) rejects: the catch writes FAILED.
controller_rejects(i) ==
    /\ i \in controllers
    /\ controllers' = controllers \ {i}
    /\ \E stamp \in {NULL, now} :
          Write(UpdateRow(ops, i,
                  [row \in {ops[j] : j \in DOMAIN ops} |->
                      [row EXCEPT !.status = "failed",
                                  !.error = ControllerError,
                                  !.completed_at =
                                      IF stamp = NULL THEN @ ELSE stamp]]))
    /\ UNCHANGED <<archive, nextId, now, workers, dpc, dlist, handler, result,
                   wpc, wlist, crashes, cycleStuck, sweepDue, swept, runs, wall,
                   reported>>

ApiLayer ==
    \/ \E r \in ApiRequests : wrapWithOrchestration(r[1], r[2])
    \/ \E i \in controllers : controller_resolves(i)
    \/ \E i \in controllers : controller_rejects(i)

\* Requests enter through the wrapped controllers; one queue worker serves
\* them; the status monitor is not running.
NextApi == ApiLayer \/ Dispatcher \/ Handlers

SpecApi == Init /\ [][NextApi]_vars

\* C27: after a row is created, its status and error are changed only by
\* steps of the queue worker, its handler or the status
\* monitor: no step of the API layer (one that settles a controller promise)
\* changes them on an existing row.
C27_ApiNeverWrites ==
    [][controllers' # controllers
          => \A i \in DOMAIN ops \cap DOMAIN ops' :
                /\ ops'[i].status = ops[i].status
                /\ ops'[i].error = ops[i].error]_vars

(***************************************************************************)
(* The daily step of monitor_status, against the wall clock.  One cycle is *)
(* the two checks, the test  [[ $(date +%H:%M) == "00:00" ]]  and          *)
(* sleep $CHECK_INTERVAL.  The table is empty here, so the checks and the  *)
(* cleanup write nothing; the checks still take time (two sqlite3 runs).   *)
(***************************************************************************)
CHECK_INTERVAL == 60
SecondsPerMinute == 60
SecondsPerDay == 86400
MaxCheckSeconds == 1
MaxWallSeconds == 600

\* The monitor is started at midnight, or one second before it.
DailyStarts == {0, SecondsPerDay - 1}

InitDaily == \E start \in DailyStarts : InitAt({1}, start)

WallDay(t) == t \div SecondsPerDay

\* date +%H:%M  as the minute of the day
WallMinute(t) == (t % SecondsPerDay) \div SecondsPerMinute

\* check_stuck_operations; check_timed_out_operations : nothing selected
monitor_checks ==
    /\ wpc = "sleep"
    /\ DOMAIN ops = {}
    /\ \E d \in 0..MaxCheckSeconds : wall' = wall + d
    /\ wpc' = "midnight_test"
    /\ UNCHANGED <<ops, termSince, archive, nextId, now, workers, dpc, dlist,
                   handler, result, controllers, reported, wlist, crashes,
                   cycleStuck, sweepDue, swept, runs>>

\* if [[ $(date +%H:%M) == "00:00" ]]; then generate_status_report;
\* cleanup_old_operations; fi
monitor_midnight ==
    /\ wpc = "midnight_test"
    /\ reported' = IF WallMinute(wall) = 0
                   THEN Append(reported, WallDay(wall))
                   ELSE reported
    /\ wpc' = "interval"
    /\ UNCHANGED <<ops, termSince, archive, nextId, now, workers, dpc, dlist,
                   handler, result, controllers, wall, wlist, crashes,
                   cycleStuck, sweepDue, swept, runs>>

\* sleep $CHECK_INTERVAL
monitor_sleep ==
    /\ wpc = "interval"
    /\ wall < SecondsPerDay + MaxWallSeconds
    /\ wall' = wall + CHECK_INTERVAL
    /\ wpc' = "sleep"
    /\ UNCHANGED <<ops, termSince, archive, nextId, now, workers, dpc, dlist,
                   handler, result, controllers, reported, wlist, crashes,
                   cycleStuck, sweepDue, swept, runs>>

NextDaily == monitor_checks \/ monitor_midnight \/ monitor_sleep

SpecDaily == InitDaily /\ [][NextDaily]_vars

ReportsOn(day) == Cardinality({k \in DOMAIN reported : reported[k] = day})

\* C28: the daily step runs exactly once per calendar day: once the 00:00
\* minute of a day that began with the monitor running has passed, the
\* report and the cleanup have run exactly once on that day.
C28_DailyOnce ==
    \A day \in 1..WallDay(wall) :
        WallMinute(wall) > 0 => ReportsOn(day) = 1

\* The types of the model's registry that are lines of the shipped
\* operation_types.conf (every shipped line has the form of this one).
ShippedTypes == {"site.create"}

\* C29: when the queue worker processes a pending row whose type is in the
\* shipped registry, it starts the mapped script with the type and the id,
\* and the first argument is a word the script's case accepts.
C29_ShippedTypeRuns ==
    [][\A d \in workers :
          (/\ dpc[d] = "loop"
           /\ Head(dlist[d])[2] \in ShippedTypes
           /\ <<dpc'[d], dlist'[d]>> # <<dpc[d], dlist[d]>>)
          => LET id == Head(dlist[d])[1]
                 type == Head(dlist[d])[2]
             IN /\ RunStarts(d)
                /\ handler'[d].script = OPERATION_HANDLERS[type].script
                /\ handler'[d].operation = type
                /\ handler'[d].id = id
                /\ type \in SubActions(handler'[d].script)]_vars

\* C30 as stated: a row selected by the stuck check of a cycle is not
\* handled again by the timeout check of that cycle.
C30_OncePerCycle ==
    [][\A i \in DOMAIN ops :
          (wpc = "timeout_loop" /\ Handles(i))
             => \A p \in cycleStuck : p[1] # i]_vars

\* C30, amended: a row selected by the stuck check of a cycle is handled
\* again by the timeout check of that cycle only when the cycle has by then
\* lasted longer than the timeout threshold; retry_count changes only in a
\* handling step of the status monitor, by 1.  In a cycle shorter than the
\* threshold the count grows by at most 1, also when the row's started_at
\* is older than both thresholds.
C30_OncePerShortCycle ==
    [][\A i \in DOMAIN ops \cap DOMAIN ops' :
          /\ (wpc = "timeout_loop" /\ Handles(i))
                => \A p \in cycleStuck :
                      p[1] = i => now - p[3] > TimeoutMinutes
          /\ ops'[i].retry_count <= ops[i].retry_count + 1
          /\ ops'[i].retry_count # ops[i].retry_count => Handles(i)]_vars

\* C30 witness: the timeout check has run, at the time the cycle began, in
\* a cycle whose stuck check reset a row started more than an hour before;
\* the row still carries that started_at, has retry_count 1 and was not
\* selected again.
C30_OldRowResetOnce ==
    /\ wpc = "timeout_loop"
    /\ \E p \in cycleStuck :
          /\ p[1] \in DOMAIN ops
          /\ now = p[3]
          /\ now - p[2] > TimeoutMinutes
          /\ ops[p[1]].started_at = p[2]
          /\ ops[p[1]].status = "pending"
          /\ ops[p[1]].retry_count = 1
          /\ p[1] \notin wlist

C32_RerunAfterReset ==
    [][\A d \in workers :
          (RunStarts(d) /\ handler'[d].id \in DOMAIN ops)
             => /\ runs[handler'[d].id].started <= ops[handler'[d].id].retry_count
                /\ runs[handler'[d].id].started <= MAX_RETRIES]_vars

(***************************************************************************)
(* Progress.  Site operations only, entered through the API; the two loops *)
(* are scheduled fairly (each is a `while true` of its own process).  In   *)
(* SpecFair every handler process takes its next step sooner or later: it  *)
(* exits or dies.  In SpecHang a handler may stay where it is for ever.    *)
(* The clock is under no fairness: no progress below rests on time         *)
(* standing still or running out.                                          *)
(***************************************************************************)
FairRequests == {<<"create", "ok">>, <<"create", "bad">>}

ProducerFair ==
    /\ \E r \in FairRequests : InsertRow(r[1], r[2], "api", MaxPairOps)
    /\ UNCHANGED <<controllers, wall, reported>>

SiteDispatcher == \E d \in WorkerIds :
    \/ monitor_operations(d)
    \/ ProcessUnavailable(d)
    \/ ProcessExec(d)

SiteHandlers == \E d \in WorkerIds :
    \/ SiteMain(d)
    \/ CommandSucceeds(d)
    \/ HandlerAbort(d)

WatchdogLoop ==
    \/ check_stuck_operations
    \/ \E i \in wlist : handle_stuck_operation(i)
    \/ check_timed_out_operations
    \/ \E i \in wlist : handle_timeout(i)
    \/ SkipDaily

NextFair ==
    ProducerFair \/ ClockPair \/ SiteDispatcher \/ SiteHandlers \/ WatchdogLoop

SpecFair ==
    /\ Init
    /\ [][NextFair]_vars
    /\ WF_vars(SiteDispatcher)
    /\ WF_vars(SiteHandlers)
    /\ WF_vars(WatchdogLoop)

SpecHang ==
    /\ Init
    /\ [][NextFair]_vars
    /\ WF_vars(SiteDispatcher)
    /\ WF_vars(WatchdogLoop)

\* C33: with both loops scheduled fairly and every handler process ending,
\* every enqueued api operation reaches completed or failed and stays there;
\* in particular, from some point on it is never pending again.
C33_EventuallySettled ==
    \A i \in 1..MaxPairOps :
        <>[](i \in DOMAIN ops => ops[i].status # "pending")

\* C34: a handler that never returns does not block other work: with both
\* loops scheduled fairly, every pending operation gets a handler run (or
\* leaves pending) sooner or later, whatever another operation's handler
\* does.
C34_OthersStillRun ==
    \A i \in 1..MaxPairOps :
        [](i \in DOMAIN ops
             => <>(i \in DOMAIN ops /\ (\/ runs[i].started > 0
                                      \/ ops[i].status # "pending")))

\* C35: the queue worker starts a handler only for a row that is pending at
\* that moment: a row that has left pending since the poll read its list is
\* skipped.
C35_StartsOnlyPending ==
    [][\A d \in workers :
          (RunStarts(d) /\ handler'[d].id \in DOMAIN ops)
             => ops[handler'[d].id].status = "pending"]_vars

\* The status monitor never writes to a pending row, nor to a processing row
\* younger than the stuck threshold.
C36_NeverPendingOrYoung ==
    [][\A i \in DOMAIN ops \cap DOMAIN ops' :
          Handles(i) =>
             /\ ops[i].status # "pending"
             /\ ops[i].status = "processing" => Stalled(ops[i])]_vars

\* C36: every reset or exhaustion failure of the status monitor applies to
\* a row that is, at the moment of the write, processing and has been for
\* longer than the stuck threshold; it changes no pending row and no
\* processing row younger than the threshold.
C36_WritesOnlyStalled ==
    [][\A i \in DOMAIN ops \cap DOMAIN ops' :
          Handles(i) => Stalled(ops[i])]_vars

\* The row is completed or failed and its completed_at is more than the
\* retention before the present time.
PastRetention(row) ==
    /\ row.status \in {"completed", "failed"}
    /\ row.completed_at # NULL
    /\ now - row.completed_at > RetentionMinutes

\* C37: the daily sweep takes out of the live table, and copies to the
\* archive, only rows that are completed or failed with a completed_at older
\* than 30 days: no pending or processing row and no terminal row with a
\* younger completed_at is ever archived or deleted.
C37_SweepOnlyOldTerminal ==
    [][/\ \A i \in DOMAIN ops \ DOMAIN ops' : PastRetention(ops[i])
       /\ \A r \in BagToSet(archive') :
             CopiesIn(r, archive') > CopiesIn(r, archive)
                => /\ PastRetention(r)
                   /\ \E i \in DOMAIN ops : ops[i] = r]_vars

\* C37 witness: a sweep has ended that archived a completed or failed row
\* past the retention and deleted it from the live table.
C37_OldRowSwept ==
    /\ wpc = "sleep"
    /\ swept
    /\ \E i \in 1..(nextId - 1) :
          /\ i \notin DOMAIN ops
          /\ \E r \in BagToSet(archive) : r.id = i /\ PastRetention(r)

====
